---- MODULE Spec2Model ----
(***************************************************************************)
(* The frame loop of engine/src/tests/window_test.rs (window_test) over    *)
(* the swapchain of engine/src/vulkan/vulkan_window.rs and the pipeline    *)
(* and command-buffer builders of engine/src/vulkan/vulkan.rs.             *)
(*                                                                         *)
(* The CPU side is the single-threaded winit callback: one action per      *)
(* event handler, the MainEventsCleared handler cut at its two blocking    *)
(* calls (acquire_next_image and the fence wait), where the GPU runs on.   *)
(* The GPU side is one action, GpuComplete, that finishes a submitted      *)
(* frame once the future it was chained on has finished.                   *)
(*                                                                         *)
(* Spec is the frame loop. What runs before it is followed on its own:     *)
(* DeviceSpec is create_logical_device over the devices an instance        *)
(* enumerates, WindowSpec the calls of a VulkanWindow and of               *)
(* create_command_buffers; each records the last call, its arguments and   *)
(* its outcome in `call`.                                                  *)
(*                                                                         *)
(* Three more specifications follow the same loop in a narrower setting:   *)
(* RoundRobinSpec hands the images out in index order, FrameSpec is the    *)
(* MainEventsCleared handler under fairness, OutOfDateSpec is the loop on  *)
(* a surface whose every acquire reports out-of-date.                      *)
(*                                                                         *)
(* Driver and windowing behaviour the repository does not contain:         *)
(*   - the driver creates exactly the requested number of images;          *)
(*   - acquire_next_image may return any index of the current swapchain;   *)
(*   - a flush that returns Err has put no work on the queue;              *)
(*   - a Resized(w,h) event is delivered when the drawable size has        *)
(*     become (w,h), and inner_size() returns the size last reported;      *)
(*   - once a handler has set ControlFlow::Exit, no further handler runs.  *)
(***************************************************************************)
EXTENDS Integers, Sequences, FiniteSets, TLC

\* ------------------------------------------------------------------ bounds

\* MainEventsCleared iterations explored.
MaxIterations == 3

\* Largest caps.min_image_count the driver reports.
MaxCapsMinImageCount == 1

\* Drawable sizes the window takes; it opens at InitialSize.
InitialSize == <<800, 600>>

Sizes == { InitialSize, <<1024, 768>> }

CapsMinImageCounts == 1..MaxCapsMinImageCount

\* ------------------------------------------------------------------ values

\* An empty fence slot: None in Vec<Option<Arc<FenceSignalFuture>>>.
NoFence == 0

len(v) == Cardinality(DOMAIN v)

VARIABLES
    inner_size,            \* native_window.inner_size(): the drawable size
    resized_payload,       \* the size carried by the last WindowEvent::Resized
    toolset_viewport,      \* VulkanToolset.viewport, read by create_graphics_pipeline
    viewport,              \* window_test's local `viewport`
    swapchain,             \* window_test's `swapchain`: [id, create_info]
    images,                \* the images of `swapchain`
    command_buffer,        \* window_test's `command_buffer`
    window_resized,
    recreate_swapchain,
    new_dimensions,        \* the size read by the last recreation
    fences,
    previous_fence_i,
    control_flow,
    pc,                    \* position of the MainEventsCleared handler
    image_i,
    acquire_result,        \* outcome of this iteration's acquire_next_image
    flush_result,          \* outcome of this iteration's submit chain: of then_execute
                           \* ("ExecError") or of then_signal_fence_and_flush
    frames,                \* the queue: every frame whose flush returned Ok
    pipeline_builds,       \* calls of create_graphics_pipeline
    command_buffer_builds, \* calls of create_command_buffers
    swapchain_recreations, \* calls of swapchain.recreate that returned Ok
    framebuffer_builds,    \* calls of window.create_framebuffers
    iteration,
    physical_devices,      \* instance.enumerate_physical_devices()
    device,                \* create_logical_device's (physical_device, queue_family_index)
    surface_caps,          \* physical_device.surface_capabilities(surface)
    window,                \* the VulkanWindow
    call                   \* the last VulkanWindow / VulkanToolset call made during setup

\* What toolset and window construction set up; the frame loop leaves it alone.
setup_vars == << physical_devices, device, surface_caps, window, call >>

loop_vars == << inner_size, resized_payload, toolset_viewport, viewport, swapchain,
           images, command_buffer, window_resized, recreate_swapchain,
           new_dimensions, fences, previous_fence_i, control_flow, pc, image_i,
           acquire_result, flush_result, frames, pipeline_builds,
           command_buffer_builds, swapchain_recreations, framebuffer_builds,
           iteration >>

vars == << loop_vars, setup_vars >>

\* Option<T>
None == [ some |-> FALSE ]

Some(x) == [ some |-> TRUE, value |-> x ]

\* What a call gives back: a value, or a panic.
Returns(x) == [ panic |-> FALSE, value |-> x ]

Panics(message) == [ panic |-> TRUE, message |-> message ]

\* ------------------------------------------------------ swapchain manager

\* Viewport { offset: [0,0], extent: window.inner_size(), depth_range: 0..=1 }
Viewport(extent) ==
    [ offset |-> <<0, 0>>, extent |-> extent, depth_range |-> <<0, 1>> ]

\* The images the driver hands back for a swapchain.
SwapchainImages(id, create_info) ==
    [ k \in 0..(create_info.min_image_count - 1) |-> [ swapchain |-> id, index |-> k ] ]

\* VulkanWindow::create_swapchain: the SwapchainCreateInfo it passes.
CreateInfo(caps_min_image_count, dimensions) ==
    [ min_image_count |-> caps_min_image_count + 1,
      image_format    |-> "surface_formats[0]",
      image_extent    |-> dimensions,
      image_usage     |-> "COLOR_ATTACHMENT",
      composite_alpha |-> "supported_composite_alpha[0]",
      present_mode    |-> "Fifo" ]

\* Faulty variant, ruled out by RecreationChangesOnlyExtent: image_extent is
\* not overridden.
RecreateInfoKeepsExtent(create_info, dimensions) == create_info

\* Faulty variant, ruled out by RecreationIdempotent: min_image_count recomputed as "one more".
RecreateInfoOneMoreImage(create_info, dimensions) ==
    [ create_info EXCEPT !.image_extent = dimensions,
                         !.min_image_count = @ + 1 ]

\* swapchain.recreate(SwapchainCreateInfo { image_extent: new_dimensions.into(),
\*                                          ..swapchain.create_info() })
RecreateInfo(create_info, dimensions) ==
    [ create_info EXCEPT !.image_extent = dimensions ]

\* single_pass_renderpass!: one colour attachment, load Clear, store Store.
RenderPass(format) ==
    [ format |-> format, samples |-> 1, load_op |-> "Clear", store_op |-> "Store",
      created_in |-> "create_swapchain" ]

\* Faulty variant, ruled out by FramebufferPerImage: the framebuffers come out
\* in the reverse order of the images.
create_framebuffers_reversed(render_pass, imgs) ==
    [ k \in DOMAIN imgs |->
        [ render_pass |-> render_pass,
          attachments |-> << imgs[Cardinality(DOMAIN imgs) - 1 - k] >> ] ]

\* VulkanWindow::create_framebuffers: the map over the images, given the
\* render pass the window stores.
create_framebuffers(render_pass, imgs) ==
    [ k \in DOMAIN imgs |-> [ render_pass |-> render_pass, attachments |-> << imgs[k] >> ] ]

\* VulkanWindow::new: the swapchain, images and render pass start empty.
VulkanWindow_new(size) ==
    [ window_viewport    |-> Viewport(size),
      window_swapchain   |-> None,
      window_images      |-> None,
      window_render_pass |-> None ]

\* VulkanWindow::create_swapchain, when Swapchain::new returns Ok.
create_swapchain(self, caps, dimensions) ==
    LET info == CreateInfo(caps.min_image_count, dimensions)
    IN  [ self EXCEPT !.window_swapchain   = Some([ id |-> 0, create_info |-> info ]),
                      !.window_images      = Some(SwapchainImages(0, info)),
                      !.window_render_pass = Some(RenderPass(info.image_format)) ]

\* VulkanWindow::get_swapchain
get_swapchain(self) ==
    IF self.window_swapchain.some /\ self.window_images.some
    THEN Returns(<< self.window_swapchain.value, self.window_images.value >>)
    ELSE Panics("Swapchain is empty!")

\* VulkanWindow::get_render_pass
get_render_pass(self) ==
    IF self.window_render_pass.some
    THEN Returns(self.window_render_pass.value)
    ELSE Panics("Render pass is empty")

\* Faulty variant, ruled out by RenderPassCreatedOnce: every call builds a
\* render pass of its own.
window_create_framebuffers_own_pass(self, imgs) ==
    Returns(create_framebuffers(
                [ RenderPass("surface_formats[0]") EXCEPT !.created_in = "create_framebuffers" ],
                imgs))

\* VulkanWindow::create_framebuffers as a call on a window: the expect on the
\* stored render pass sits inside the closure, which runs once per image.
window_create_framebuffers(self, imgs) ==
    IF DOMAIN imgs = {}
    THEN Returns(imgs)
    ELSE IF self.window_render_pass.some
         THEN Returns(create_framebuffers(self.window_render_pass.value, imgs))
         ELSE Panics("Framebuffer retrieve empty render pass!")

\* --------------------------------------- pipeline builder, command recorder

\* VulkanToolset::create_graphics_pipeline: the viewport baked in is self.viewport.
create_graphics_pipeline(self_viewport, id) ==
    [ id |-> id, viewports |-> << self_viewport >> ]

\* Triangle::new: the vertex buffer of three vertices.
TriangleVertexBuffer == [ usage |-> "VERTEX_BUFFER", len |-> 3 ]

\* clear_values: vec![Some([0.1, 0.1, 0.1, 1.0].into())]
ClearValues == << << "0.1", "0.1", "0.1", "1.0" >> >>

\* Faulty variant, ruled out by CommandRecorder: command buffers for one
\* submission, drawing three vertices whatever the buffer holds.
create_command_buffers_one_time(vbo, pipeline, framebuffers) ==
    [ k \in DOMAIN framebuffers |->
        [ level       |-> "primary",
          usage       |-> "OneTimeSubmit",
          framebuffer |-> framebuffers[k],
          pipeline    |-> pipeline,
          commands    |->
              << [ op |-> "begin_render_pass", framebuffer |-> framebuffers[k],
                   clear_values |-> ClearValues, contents |-> "Inline" ],
                 [ op |-> "bind_pipeline_graphics", pipeline |-> pipeline ],
                 [ op |-> "bind_vertex_buffers", first_binding |-> 0, buffer |-> vbo ],
                 [ op |-> "draw", vertex_count |-> 3, instance_count |-> 1,
                   first_vertex |-> 0, first_instance |-> 0 ],
                 [ op |-> "end_render_pass" ] >> ] ]

\* VulkanToolset::create_command_buffers: one primary command buffer per
\* framebuffer; framebuffer and pipeline name what it renders into and binds.
create_command_buffers(vbo, pipeline, framebuffers) ==
    [ k \in DOMAIN framebuffers |->
        [ level       |-> "primary",
          usage       |-> "MultipleSubmit",
          framebuffer |-> framebuffers[k],
          pipeline    |-> pipeline,
          commands    |->
              << [ op |-> "begin_render_pass", framebuffer |-> framebuffers[k],
                   clear_values |-> ClearValues, contents |-> "Inline" ],
                 [ op |-> "bind_pipeline_graphics", pipeline |-> pipeline ],
                 [ op |-> "bind_vertex_buffers", first_binding |-> 0, buffer |-> vbo ],
                 [ op |-> "draw", vertex_count |-> vbo.len, instance_count |-> 1,
                   first_vertex |-> 0, first_instance |-> 0 ],
                 [ op |-> "end_render_pass" ] >> ] ]

\* ------------------------------------------------------------------- Init

\* The one device of the frame-loop runs: a discrete GPU whose first queue
\* family does graphics and presents.
DefaultDevice ==
    [ device_type |-> "DiscreteGpu", khr_swapchain |-> TRUE,
      queue_family_properties |-> << [ graphics |-> TRUE, surface_support |-> TRUE ] >> ]

\* VulkanWindow::new, create_swapchain, and window_test up to event_loop.run,
\* for a window of the given size on a surface with the given minimum image count.
SetUp(size, caps_min) ==
        LET caps   == [ min_image_count |-> caps_min, max_image_count |-> None ]
            win    == create_swapchain(VulkanWindow_new(size), caps, size)
            got    == get_swapchain(win).value
            imgs   == got[2]
            pipe   == create_graphics_pipeline(Viewport(size), 1)
        IN  /\ physical_devices = << DefaultDevice >>
            /\ device = Some([ physical_device |-> 1, queue_family_index |-> 0 ])
            /\ surface_caps = caps
            /\ window = win
            /\ call = [ op |-> "none" ]
            /\ inner_size = size
            /\ resized_payload = size
            /\ toolset_viewport = Viewport(size)
            /\ viewport = win.window_viewport
            /\ swapchain = got[1]
            /\ images = imgs
            /\ command_buffer =
                   create_command_buffers(TriangleVertexBuffer, pipe,
                                          window_create_framebuffers(win, imgs).value)
            /\ window_resized = FALSE
            /\ recreate_swapchain = FALSE
            /\ new_dimensions = size
            /\ fences = [ k \in DOMAIN imgs |-> NoFence ]
            /\ previous_fence_i = 0
            /\ control_flow = "Poll"
            /\ pc = "idle"
            /\ image_i = 0
            /\ acquire_result = "None"
            /\ flush_result = "None"
            /\ frames = << >>
            /\ pipeline_builds = 1
            /\ command_buffer_builds = 1
            /\ swapchain_recreations = 0
            /\ framebuffer_builds = 1
            /\ iteration = 0

Init == \E size \in {InitialSize}, caps_min \in CapsMinImageCounts : SetUp(size, caps_min)

\* ------------------------------------------------------- frame synchronizer

\* Faulty variant, ruled out by StaleOnlyKeepsPipeline: the rebuild hangs on the outer condition.
RebuildsPipelineOnAnyRecreation(resized, stale) == resized \/ stale

\* if window_resized { ... }: the condition under which step 1 also rebuilds
\* the viewport, the pipeline and the command buffers.
RebuildsPipeline(resized, stale) == resized

\* Faulty variant, ruled out by ResizeRoundTrip: the assignment is missing.
ResizedViewportForgotten(vp, dimensions) == vp

\* viewport.extent = new_dimensions.into();
ResizedViewport(vp, dimensions) == [ vp EXCEPT !.extent = dimensions ]

\* Faulty variant, ruled out by OneRebuildPerResize: the pipeline is built inside the
\* per-framebuffer map, once per framebuffer.
RebuildPerFramebuffer(self_viewport, new_framebuffers, n_pipelines, n_sets) ==
    [ pipeline_builds       |-> n_pipelines + len(new_framebuffers),
      command_buffer_builds |-> n_sets + 1,
      command_buffer        |->
          [ k \in DOMAIN new_framebuffers |->
              create_command_buffers(
                  TriangleVertexBuffer,
                  create_graphics_pipeline(self_viewport, n_pipelines + 1 + k),
                  new_framebuffers)[k] ] ]

\* let new_pipeline = toolset.create_graphics_pipeline(&vs, &fs);
\* command_buffer = toolset.create_command_buffers(&vbo, &new_pipeline, &new_framebuffers);
RebuildOnResize(self_viewport, new_framebuffers, n_pipelines, n_sets) ==
    [ pipeline_builds       |-> n_pipelines + 1,
      command_buffer_builds |-> n_sets + 1,
      command_buffer        |->
          create_command_buffers(
              TriangleVertexBuffer,
              create_graphics_pipeline(self_viewport, n_pipelines + 1),
              new_framebuffers) ]

\* Faulty variant, ruled out by SuboptimalFrameProceeds: suboptimal is ignored.
StaleAfterAcquireIgnoringSuboptimal(stale, suboptimal) == stale

\* if suboptimal { recreate_swapchain = true; }
StaleAfterAcquire(stale, suboptimal) == stale \/ suboptimal

\* Faulty variant, ruled out by FenceSafety, SlotBound: the wait is missing.
FenceWaitSkipped(slot) == TRUE

\* if let Some(image_fence) = &fences[image_i] { image_fence.wait(None).unwrap(); }
\* returns once the slot is empty or its fence has signaled.
FenceWaitReturns(slot) == IF slot = NoFence THEN TRUE ELSE frames[slot].status = "done"

\* Faulty variant, ruled out by RunsUntilCloseRequested: exit is requested
\* only once every submitted frame has finished.
CloseRequestedDrains ==
    /\ UNCHANGED setup_vars
    /\ pc = "idle"
    /\ control_flow = "Poll"
    /\ \A f \in DOMAIN frames : frames[f].status = "done"
    /\ control_flow' = "Exit"
    /\ UNCHANGED << inner_size, resized_payload, toolset_viewport, viewport,
                    swapchain, images, command_buffer, window_resized,
                    recreate_swapchain, new_dimensions, fences, previous_fence_i,
                    pc, image_i, acquire_result, flush_result, frames,
                    pipeline_builds, command_buffer_builds,
                    swapchain_recreations, framebuffer_builds, iteration >>

\* Event::WindowEvent { event: WindowEvent::CloseRequested, .. }
CloseRequested ==
    /\ UNCHANGED setup_vars
    /\ pc = "idle"
    /\ control_flow = "Poll"
    /\ control_flow' = "Exit"
    /\ UNCHANGED << inner_size, resized_payload, toolset_viewport, viewport,
                    swapchain, images, command_buffer, window_resized,
                    recreate_swapchain, new_dimensions, fences, previous_fence_i,
                    pc, image_i, acquire_result, flush_result, frames,
                    pipeline_builds, command_buffer_builds,
                    swapchain_recreations, iteration,
                    framebuffer_builds >>

\* Faulty variant, ruled out by ResizedOnlySetsFlag: the handler resizes the
\* viewport on the spot.
ResizedResizesViewport(size) ==
    /\ UNCHANGED setup_vars
    /\ pc = "idle"
    /\ control_flow = "Poll"
    /\ inner_size' = size
    /\ resized_payload' = size
    /\ window_resized' = TRUE
    /\ viewport' = ResizedViewport(viewport, size)
    /\ UNCHANGED << toolset_viewport, swapchain, images,
                    command_buffer, recreate_swapchain, new_dimensions, fences,
                    previous_fence_i, control_flow, pc, image_i, acquire_result,
                    flush_result, frames, pipeline_builds,
                    command_buffer_builds, swapchain_recreations,
                    framebuffer_builds, iteration >>

\* Event::WindowEvent { event: WindowEvent::Resized(_), .. }
Resized(size) ==
    /\ UNCHANGED setup_vars
    /\ pc = "idle"
    /\ control_flow = "Poll"
    /\ inner_size' = size
    /\ resized_payload' = size
    /\ window_resized' = TRUE
    /\ UNCHANGED << toolset_viewport, viewport, swapchain, images,
                    command_buffer, recreate_swapchain, new_dimensions, fences,
                    previous_fence_i, control_flow, pc, image_i, acquire_result,
                    flush_result, frames, pipeline_builds,
                    command_buffer_builds, swapchain_recreations, iteration,
                    framebuffer_builds >>

\* _ => ()
OtherEvent ==
    /\ pc = "idle"
    /\ control_flow = "Poll"
    /\ UNCHANGED vars

\* Faulty variant, ruled out by RecreationIffFlagged: step 1 is skipped on
\* recreate_swapchain alone, whatever window_resized is.
BeginFrameStaleOnly ==
    /\ UNCHANGED setup_vars
    /\ pc = "idle"
    /\ control_flow = "Poll"
    /\ iteration < MaxIterations
    /\ ~ recreate_swapchain
    /\ iteration' = iteration + 1
    /\ acquire_result' = "None"
    /\ flush_result' = "None"
    /\ pc' = "acquire"
    /\ UNCHANGED << inner_size, resized_payload, toolset_viewport, viewport,
                    swapchain, images, command_buffer, window_resized,
                    recreate_swapchain, new_dimensions, fences, previous_fence_i,
                    control_flow, image_i, frames, pipeline_builds,
                    command_buffer_builds, swapchain_recreations,
                    framebuffer_builds >>

\* Event::MainEventsCleared, no flag set: straight to acquire_next_image.
\* The iterations followed are fewer than max_iterations.
BeginFrameWithin(max_iterations) ==
    /\ UNCHANGED setup_vars
    /\ pc = "idle"
    /\ control_flow = "Poll"
    /\ iteration < max_iterations
    /\ ~(window_resized \/ recreate_swapchain)
    /\ iteration' = iteration + 1
    /\ acquire_result' = "None"
    /\ flush_result' = "None"
    /\ pc' = "acquire"
    /\ UNCHANGED << inner_size, resized_payload, toolset_viewport, viewport,
                    swapchain, images, command_buffer, window_resized,
                    recreate_swapchain, new_dimensions, fences, previous_fence_i,
                    control_flow, image_i, frames, pipeline_builds,
                    command_buffer_builds, swapchain_recreations,
                    framebuffer_builds >>

BeginFrame == BeginFrameWithin(MaxIterations)

\* Faulty variant, ruled out by RecreationKeepsFences: the recreation starts
\* over with empty fence slots and the cursor at 0.
BeginFrameRecreateClearsFences ==
    /\ UNCHANGED setup_vars
    /\ pc = "idle"
    /\ control_flow = "Poll"
    /\ iteration < MaxIterations
    /\ window_resized \/ recreate_swapchain
    /\ LET dimensions       == inner_size
           info             == RecreateInfo(swapchain.create_info, dimensions)
           id               == swapchain_recreations + 1
           new_images       == SwapchainImages(id, info)
           new_framebuffers ==
               window_create_framebuffers(window, new_images).value
           rebuilt          == RebuildOnResize(toolset_viewport, new_framebuffers,
                                               pipeline_builds, command_buffer_builds)
       IN  /\ recreate_swapchain' = FALSE
           /\ new_dimensions' = dimensions
           /\ swapchain' = [ id |-> id, create_info |-> info ]
           /\ images' = new_images
           /\ swapchain_recreations' = id
           /\ framebuffer_builds' = framebuffer_builds + 1
           /\ IF RebuildsPipeline(window_resized, recreate_swapchain)
              THEN /\ window_resized' = FALSE
                   /\ viewport' = ResizedViewport(viewport, dimensions)
                   /\ pipeline_builds' = rebuilt.pipeline_builds
                   /\ command_buffer_builds' = rebuilt.command_buffer_builds
                   /\ command_buffer' = rebuilt.command_buffer
              ELSE UNCHANGED << window_resized, viewport, pipeline_builds,
                                command_buffer_builds, command_buffer >>
    /\ iteration' = iteration + 1
    /\ acquire_result' = "None"
    /\ flush_result' = "None"
    /\ pc' = "acquire"
    /\ fences' = [ k \in DOMAIN images' |-> NoFence ]
    /\ previous_fence_i' = 0
    /\ UNCHANGED << inner_size, resized_payload, toolset_viewport, control_flow,
                    image_i, frames >>

\* Event::MainEventsCleared, window_resized || recreate_swapchain: the
\* swapchain is recreated and, on a resize, the pipeline and command buffers.
BeginFrameRecreate ==
    /\ UNCHANGED setup_vars
    /\ pc = "idle"
    /\ control_flow = "Poll"
    /\ iteration < MaxIterations
    /\ window_resized \/ recreate_swapchain
    /\ LET dimensions       == inner_size
           info             == RecreateInfo(swapchain.create_info, dimensions)
           id               == swapchain_recreations + 1
           new_images       == SwapchainImages(id, info)
           new_framebuffers ==
               window_create_framebuffers(window, new_images).value
           rebuilt          == RebuildOnResize(toolset_viewport, new_framebuffers,
                                               pipeline_builds, command_buffer_builds)
       IN  /\ recreate_swapchain' = FALSE
           /\ new_dimensions' = dimensions
           /\ swapchain' = [ id |-> id, create_info |-> info ]
           /\ images' = new_images
           /\ swapchain_recreations' = id
           /\ framebuffer_builds' = framebuffer_builds + 1
           /\ IF RebuildsPipeline(window_resized, recreate_swapchain)
              THEN /\ window_resized' = FALSE
                   /\ viewport' = ResizedViewport(viewport, dimensions)
                   /\ pipeline_builds' = rebuilt.pipeline_builds
                   /\ command_buffer_builds' = rebuilt.command_buffer_builds
                   /\ command_buffer' = rebuilt.command_buffer
              ELSE UNCHANGED << window_resized, viewport, pipeline_builds,
                                command_buffer_builds, command_buffer >>
    /\ iteration' = iteration + 1
    /\ acquire_result' = "None"
    /\ flush_result' = "None"
    /\ pc' = "acquire"
    /\ UNCHANGED << inner_size, resized_payload, toolset_viewport, fences,
                    previous_fence_i, control_flow, image_i, frames >>

\* Faulty variant, ruled out by RecreationFailureFatal: the Err of
\* swapchain.recreate is absorbed, the flag is set again and the handler
\* returns to retry on the next iteration.
BeginFrameRecreateRetries ==
    /\ UNCHANGED setup_vars
    /\ pc = "idle"
    /\ control_flow = "Poll"
    /\ iteration < MaxIterations
    /\ window_resized \/ recreate_swapchain
    /\ recreate_swapchain' = TRUE
    /\ new_dimensions' = inner_size
    /\ iteration' = iteration + 1
    /\ acquire_result' = "None"
    /\ flush_result' = "None"
    /\ pc' = "idle"
    /\ UNCHANGED << inner_size, resized_payload, toolset_viewport, viewport,
                    swapchain, images, command_buffer, window_resized, fences,
                    previous_fence_i, control_flow, image_i, frames,
                    pipeline_builds, command_buffer_builds,
                    swapchain_recreations,
                    framebuffer_builds >>

\* .expect("failed to recreate swapchain: {e}") on an Err of swapchain.recreate
BeginFrameRecreateFails ==
    /\ UNCHANGED setup_vars
    /\ pc = "idle"
    /\ control_flow = "Poll"
    /\ iteration < MaxIterations
    /\ window_resized \/ recreate_swapchain
    /\ recreate_swapchain' = FALSE
    /\ new_dimensions' = inner_size
    /\ iteration' = iteration + 1
    /\ acquire_result' = "None"
    /\ flush_result' = "None"
    /\ pc' = "aborted"
    /\ UNCHANGED << inner_size, resized_payload, toolset_viewport, viewport,
                    swapchain, images, command_buffer, window_resized, fences,
                    previous_fence_i, control_flow, image_i, frames,
                    pipeline_builds, command_buffer_builds,
                    swapchain_recreations,
                    framebuffer_builds >>

\* acquire_next_image: Ok((image_i, suboptimal, acquire_future))
AcquireOk(i, suboptimal) ==
    /\ UNCHANGED setup_vars
    /\ pc = "acquire"
    /\ i \in DOMAIN images
    /\ image_i' = i
    /\ acquire_result' = IF suboptimal THEN "Suboptimal" ELSE "Ok"
    /\ recreate_swapchain' = StaleAfterAcquire(recreate_swapchain, suboptimal)
    /\ pc' = "wait"
    /\ UNCHANGED << inner_size, resized_payload, toolset_viewport, viewport,
                    swapchain, images, command_buffer, window_resized,
                    new_dimensions, fences, previous_fence_i, control_flow,
                    flush_result, frames, pipeline_builds,
                    command_buffer_builds, swapchain_recreations, iteration,
                    framebuffer_builds >>

\* Faulty variant, ruled out by OutOfDateAcquireAbandonsFrame: the flag is not set.
AcquireOutOfDateNoFlag ==
    /\ UNCHANGED setup_vars
    /\ pc = "acquire"
    /\ acquire_result' = "OutOfDate"
    /\ pc' = "idle"
    /\ UNCHANGED << inner_size, resized_payload, toolset_viewport, viewport,
                    swapchain, images, command_buffer, window_resized,
                    recreate_swapchain, new_dimensions, fences, previous_fence_i,
                    control_flow, image_i, flush_result, frames, pipeline_builds,
                    command_buffer_builds, swapchain_recreations, iteration,
                    framebuffer_builds >>

\* Faulty variant, ruled out by ResizeHonoured: out-of-date is taken for any
\* other acquire failure and panics.
AcquireOutOfDatePanics ==
    /\ UNCHANGED setup_vars
    /\ pc = "acquire"
    /\ acquire_result' = "OutOfDate"
    /\ pc' = "aborted"
    /\ UNCHANGED << inner_size, resized_payload, toolset_viewport, viewport,
                    swapchain, images, command_buffer, window_resized,
                    recreate_swapchain, new_dimensions, fences, previous_fence_i,
                    control_flow, image_i, flush_result, frames, pipeline_builds,
                    command_buffer_builds, swapchain_recreations, iteration,
                    framebuffer_builds >>

\* Faulty variant, ruled out by OutOfDateAcquireOnlySetsFlag: the abandoned
\* iteration empties the fence slots.
AcquireOutOfDateDropsFences ==
    /\ UNCHANGED setup_vars
    /\ pc = "acquire"
    /\ acquire_result' = "OutOfDate"
    /\ recreate_swapchain' = TRUE
    /\ fences' = [ k \in DOMAIN fences |-> NoFence ]
    /\ pc' = "idle"
    /\ UNCHANGED << inner_size, resized_payload, toolset_viewport, viewport,
                    swapchain, images, command_buffer, window_resized,
                    new_dimensions, previous_fence_i, control_flow,
                    image_i, flush_result, frames, pipeline_builds,
                    command_buffer_builds, swapchain_recreations, iteration,
                    framebuffer_builds >>

\* Err(VulkanError::OutOfDate) => { recreate_swapchain = true; return; }
AcquireOutOfDate ==
    /\ UNCHANGED setup_vars
    /\ pc = "acquire"
    /\ acquire_result' = "OutOfDate"
    /\ recreate_swapchain' = TRUE
    /\ pc' = "idle"
    /\ UNCHANGED << inner_size, resized_payload, toolset_viewport, viewport,
                    swapchain, images, command_buffer, window_resized,
                    new_dimensions, fences, previous_fence_i, control_flow,
                    image_i, flush_result, frames, pipeline_builds,
                    command_buffer_builds, swapchain_recreations, iteration,
                    framebuffer_builds >>

\* Faulty variant, ruled out by AcquireFailureFatal: the failure is passed over
\* and the handler returns.
AcquireErrorReturns ==
    /\ UNCHANGED setup_vars
    /\ pc = "acquire"
    /\ acquire_result' = "Error"
    /\ pc' = "idle"
    /\ UNCHANGED << inner_size, resized_payload, toolset_viewport, viewport,
                    swapchain, images, command_buffer, window_resized,
                    recreate_swapchain, new_dimensions, fences, previous_fence_i,
                    control_flow, image_i, flush_result, frames, pipeline_builds,
                    command_buffer_builds, swapchain_recreations, iteration,
                    framebuffer_builds >>

\* Err(e) => panic!("failed to acquire next image: {e}")
AcquireError ==
    /\ UNCHANGED setup_vars
    /\ pc = "acquire"
    /\ acquire_result' = "Error"
    /\ pc' = "aborted"
    /\ UNCHANGED << inner_size, resized_payload, toolset_viewport, viewport,
                    swapchain, images, command_buffer, window_resized,
                    recreate_swapchain, new_dimensions, fences, previous_fence_i,
                    control_flow, image_i, flush_result, frames, pipeline_builds,
                    command_buffer_builds, swapchain_recreations, iteration,
                    framebuffer_builds >>

\* The fence wait on fences[image_i]; indexing past the end of fences or of
\* command_buffer panics.
WaitImageFence ==
    /\ UNCHANGED setup_vars
    /\ pc = "wait"
    /\ IF image_i \in DOMAIN fences /\ image_i \in DOMAIN command_buffer
       THEN /\ FenceWaitReturns(fences[image_i])
            /\ pc' = "submit"
       ELSE pc' = "aborted"
    /\ UNCHANGED << inner_size, resized_payload, toolset_viewport, viewport,
                    swapchain, images, command_buffer, window_resized,
                    recreate_swapchain, new_dimensions, fences, previous_fence_i,
                    control_flow, image_i, acquire_result, flush_result, frames,
                    pipeline_builds, command_buffer_builds,
                    swapchain_recreations, iteration,
                    framebuffer_builds >>

\* Faulty variant, ruled out by WaitDependency: the chain starts from the fence
\* in the acquired index's own slot.
SubmittedFrameAfterOwnSlot ==
    [ image          |-> image_i,
      acquired       |-> [ swapchain |-> swapchain.id, image_index |-> image_i ],
      wait_for       |-> fences[image_i],
      command_buffer |-> command_buffer[image_i],
      present        |-> [ swapchain |-> swapchain.id, image_index |-> image_i ],
      status         |-> "pending" ]

\* Faulty variant, ruled out by PresentFollowsSubmission: the present is
\* requested for the index the cursor points at.
SubmittedFramePresentsPrevious ==
    [ image          |-> image_i,
      acquired       |-> [ swapchain |-> swapchain.id, image_index |-> image_i ],
      wait_for       |-> fences[previous_fence_i],
      command_buffer |-> command_buffer[image_i],
      present        |-> [ swapchain |-> swapchain.id, image_index |-> previous_fence_i ],
      status         |-> "pending" ]

\* previous_future.join(acquire_future).then_execute(queue, command_buffer[image_i])
\*     .then_swapchain_present(queue, (swapchain, image_i)).then_signal_fence_and_flush()
\* as it is put on the queue when the flush returns Ok: acquired is the
\* acquire_future, wait_for the previous_future (NoFence for sync::now).
SubmittedFrame ==
    [ image          |-> image_i,
      acquired       |-> [ swapchain |-> swapchain.id, image_index |-> image_i ],
      wait_for       |-> fences[previous_fence_i],
      command_buffer |-> command_buffer[image_i],
      present        |-> [ swapchain |-> swapchain.id, image_index |-> image_i ],
      status         |-> "pending" ]

\* .then_execute(queue.clone(), command_buffer[image_i].clone()).unwrap() on
\* an Err of then_execute: the unwrap panics before anything is flushed.
SubmitExecutePanics ==
    /\ UNCHANGED setup_vars
    /\ pc = "submit"
    /\ flush_result' = "ExecError"
    /\ pc' = "aborted"
    /\ UNCHANGED << inner_size, resized_payload, toolset_viewport, viewport,
                    swapchain, images, command_buffer, window_resized,
                    recreate_swapchain, new_dimensions, fences, previous_fence_i,
                    control_flow, image_i, acquire_result, frames,
                    pipeline_builds, command_buffer_builds,
                    swapchain_recreations, iteration,
                    framebuffer_builds >>

\* Ok(value) => Some(Arc::new(value))
SubmitOk ==
    /\ UNCHANGED setup_vars
    /\ pc = "submit"
    /\ flush_result' = "Ok"
    /\ frames' = Append(frames, SubmittedFrame)
    /\ fences' = [ fences EXCEPT ![image_i] = Len(frames) + 1 ]
    /\ previous_fence_i' = image_i
    /\ pc' = "idle"
    /\ UNCHANGED << inner_size, resized_payload, toolset_viewport, viewport,
                    swapchain, images, command_buffer, window_resized,
                    recreate_swapchain, new_dimensions, control_flow, image_i,
                    acquire_result, pipeline_builds, command_buffer_builds,
                    swapchain_recreations, iteration,
                    framebuffer_builds >>

\* Faulty variant, ruled out by OutOfDateSubmitRecovers: the OutOfDate arm of
\* the flush does not set the flag.
SubmitOutOfDateNoFlag ==
    /\ UNCHANGED setup_vars
    /\ pc = "submit"
    /\ flush_result' = "OutOfDate"
    /\ fences' = [ fences EXCEPT ![image_i] = NoFence ]
    /\ previous_fence_i' = image_i
    /\ pc' = "idle"
    /\ UNCHANGED << inner_size, resized_payload, toolset_viewport, viewport,
                    swapchain, images, command_buffer, window_resized,
                    recreate_swapchain, new_dimensions, control_flow, image_i,
                    acquire_result, frames, pipeline_builds,
                    command_buffer_builds, swapchain_recreations, iteration,
                    framebuffer_builds >>

\* Err(VulkanError::OutOfDate) => { recreate_swapchain = true; None }
SubmitOutOfDate ==
    /\ UNCHANGED setup_vars
    /\ pc = "submit"
    /\ flush_result' = "OutOfDate"
    /\ recreate_swapchain' = TRUE
    /\ fences' = [ fences EXCEPT ![image_i] = NoFence ]
    /\ previous_fence_i' = image_i
    /\ pc' = "idle"
    /\ UNCHANGED << inner_size, resized_payload, toolset_viewport, viewport,
                    swapchain, images, command_buffer, window_resized,
                    new_dimensions, control_flow, image_i, acquire_result,
                    frames, pipeline_builds, command_buffer_builds,
                    swapchain_recreations, iteration,
                    framebuffer_builds >>

\* Faulty variant, ruled out by IterationFinishes: a failed flush leaves in the
\* slot the fence of the chain that was never queued.
SubmitErrorStoresFence ==
    /\ UNCHANGED setup_vars
    /\ pc = "submit"
    /\ flush_result' = "Error"
    /\ fences' = [ fences EXCEPT ![image_i] = Len(frames) + 1 ]
    /\ previous_fence_i' = image_i
    /\ pc' = "idle"
    /\ UNCHANGED << inner_size, resized_payload, toolset_viewport, viewport,
                    swapchain, images, command_buffer, window_resized,
                    recreate_swapchain, new_dimensions, control_flow, image_i,
                    acquire_result, frames, pipeline_builds,
                    command_buffer_builds, swapchain_recreations,
                    framebuffer_builds, iteration >>

\* Faulty variant, ruled out by FenceSlotContents: a failed flush leaves the
\* slot as it was.
SubmitErrorKeepsSlot ==
    /\ UNCHANGED setup_vars
    /\ pc = "submit"
    /\ flush_result' = "Error"
    /\ previous_fence_i' = image_i
    /\ pc' = "idle"
    /\ UNCHANGED << inner_size, resized_payload, toolset_viewport, viewport,
                    swapchain, images, command_buffer, window_resized,
                    recreate_swapchain, new_dimensions, fences, control_flow,
                    image_i, acquire_result, frames, pipeline_builds,
                    command_buffer_builds, swapchain_recreations, iteration,
                    framebuffer_builds >>

\* Err(e) => { println!("failed to flush future: {e}"); None }
SubmitError ==
    /\ UNCHANGED setup_vars
    /\ pc = "submit"
    /\ flush_result' = "Error"
    /\ fences' = [ fences EXCEPT ![image_i] = NoFence ]
    /\ previous_fence_i' = image_i
    /\ pc' = "idle"
    /\ UNCHANGED << inner_size, resized_payload, toolset_viewport, viewport,
                    swapchain, images, command_buffer, window_resized,
                    recreate_swapchain, new_dimensions, control_flow, image_i,
                    acquire_result, frames, pipeline_builds,
                    command_buffer_builds, swapchain_recreations, iteration,
                    framebuffer_builds >>

\* The GPU finishes frame f: its fence signals. A frame chained on a previous
\* frame's future finishes after it. The model follows the GPU while the
\* process runs.
GpuComplete(f) ==
    /\ UNCHANGED setup_vars
    /\ pc # "aborted"
    /\ control_flow = "Poll"
    /\ f \in DOMAIN frames
    /\ frames[f].status = "pending"
    /\ IF frames[f].wait_for = NoFence
       THEN TRUE
       ELSE frames[frames[f].wait_for].status = "done"
    /\ frames' = [ frames EXCEPT ![f].status = "done" ]
    /\ UNCHANGED << inner_size, resized_payload, toolset_viewport, viewport,
                    swapchain, images, command_buffer, window_resized,
                    recreate_swapchain, new_dimensions, fences, previous_fence_i,
                    control_flow, pc, image_i, acquire_result, flush_result,
                    pipeline_builds, command_buffer_builds,
                    swapchain_recreations, iteration,
                    framebuffer_builds >>

Next ==
    \/ CloseRequested
    \/ \E size \in Sizes : Resized(size)
    \/ OtherEvent
    \/ BeginFrame
    \/ BeginFrameRecreate
    \/ BeginFrameRecreateFails
    \/ \E i \in DOMAIN images, suboptimal \in BOOLEAN : AcquireOk(i, suboptimal)
    \/ AcquireOutOfDate
    \/ AcquireError
    \/ WaitImageFence
    \/ SubmitExecutePanics
    \/ SubmitOk
    \/ SubmitOutOfDate
    \/ SubmitError
    \/ \E f \in 1..MaxIterations : GpuComplete(f)

Spec == Init /\ [][Next]_vars

\* ------------------------------------------------------- device selection

\* PhysicalDeviceType
DeviceTypes == { "DiscreteGpu", "IntegratedGpu", "VirtualGpu", "Cpu", "Other" }

\* Faulty variant, ruled out by DeviceSelection: integrated devices ranked
\* ahead of discrete ones.
DeviceTypeKeyIntegratedFirst(device_type) ==
    CASE device_type = "DiscreteGpu"   -> 1
      [] device_type = "IntegratedGpu" -> 0
      [] device_type = "VirtualGpu"    -> 2
      [] device_type = "Cpu"           -> 3
      [] OTHER                         -> 4

\* The key of min_by_key.
DeviceTypeKey(device_type) ==
    CASE device_type = "DiscreteGpu"   -> 0
      [] device_type = "IntegratedGpu" -> 1
      [] device_type = "VirtualGpu"    -> 2
      [] device_type = "Cpu"           -> 3
      [] OTHER                         -> 4

\* p.queue_family_properties().iter().enumerate().position(|(i, q)|
\*     q.queue_flags.contains(GRAPHICS) && p.surface_support(i, surface).unwrap_or(false))
\* The families are a sequence; the position is counted from 0.
QueueFamilyPosition(p) ==
    LET hits == { i \in DOMAIN p.queue_family_properties :
                    /\ p.queue_family_properties[i].graphics
                    /\ p.queue_family_properties[i].surface_support }
    IN  IF hits = {}
        THEN None
        ELSE Some((CHOOSE i \in hits : \A j \in hits : i <= j) - 1)

\* .filter(khr_swapchain supported).filter_map(position ...): the devices left.
Candidates(devs) ==
    { d \in DOMAIN devs : devs[d].khr_swapchain /\ QueueFamilyPosition(devs[d]).some }

\* VulkanToolset::create_logical_device, up to Device::new: min_by_key returns
\* the first of the candidates with the least key.
create_logical_device(devs) ==
    LET c == Candidates(devs)
    IN  IF c = {}
        THEN Panics("no devices available")
        ELSE LET d == CHOOSE d \in c :
                        \A e \in c :
                            \/ DeviceTypeKey(devs[d].device_type) < DeviceTypeKey(devs[e].device_type)
                            \/ /\ DeviceTypeKey(devs[d].device_type) = DeviceTypeKey(devs[e].device_type)
                               /\ d <= e
             IN  Returns([ physical_device    |-> d,
                           queue_family_index |-> QueueFamilyPosition(devs[d]).value ])

\* Devices an instance enumerates.
MaxPhysicalDevices == 2

QueueFamily(graphics, surface_support) ==
    [ graphics |-> graphics, surface_support |-> surface_support ]

QueueFamilyLists ==
    { << >>,
      << QueueFamily(TRUE, TRUE) >>,
      << QueueFamily(TRUE, FALSE), QueueFamily(FALSE, TRUE) >>,
      << QueueFamily(FALSE, FALSE), QueueFamily(TRUE, TRUE) >>,
      << QueueFamily(TRUE, FALSE), QueueFamily(TRUE, TRUE), QueueFamily(TRUE, TRUE) >> }

PhysicalDevices ==
    [ device_type : DeviceTypes, khr_swapchain : BOOLEAN,
      queue_family_properties : QueueFamilyLists ]

DeviceLists == UNION { [ 1..n -> PhysicalDevices ] : n \in 0..MaxPhysicalDevices }

\* The frame loop has not been entered: window_test's locals do not exist yet.
LoopNotStarted(size) ==
    /\ inner_size = size
    /\ resized_payload = size
    /\ toolset_viewport = Viewport(size)
    /\ viewport = Viewport(size)
    /\ swapchain = None
    /\ images = << >>
    /\ command_buffer = << >>
    /\ window_resized = FALSE
    /\ recreate_swapchain = FALSE
    /\ new_dimensions = size
    /\ fences = << >>
    /\ previous_fence_i = 0
    /\ control_flow = "Poll"
    /\ pc = "setup"
    /\ image_i = 0
    /\ acquire_result = "None"
    /\ flush_result = "None"
    /\ frames = << >>
    /\ pipeline_builds = 0
    /\ command_buffer_builds = 0
    /\ swapchain_recreations = 0
    /\ framebuffer_builds = 0
    /\ iteration = 0

\* Before VulkanToolset::new: the instance has enumerated its devices.
DeviceInit ==
    /\ physical_devices \in DeviceLists
    /\ device = None
    /\ surface_caps = None
    /\ window = None
    /\ call = [ op |-> "none" ]
    /\ LoopNotStarted(InitialSize)

\* VulkanToolset::new calling create_logical_device.
SelectDevice ==
    /\ pc = "setup"
    /\ call.op = "none"
    /\ LET r == create_logical_device(physical_devices)
       IN  /\ call' = [ op |-> "create_logical_device", args |-> physical_devices,
                        result |-> r ]
           /\ device' = IF r.panic THEN None ELSE Some(r.value)
           /\ pc' = IF r.panic THEN "aborted" ELSE "setup"
    /\ UNCHANGED << physical_devices, surface_caps, window >>
    /\ UNCHANGED << inner_size, resized_payload, toolset_viewport, viewport, swapchain,
                    images, command_buffer, window_resized, recreate_swapchain,
                    new_dimensions, fences, previous_fence_i, control_flow, image_i,
                    acquire_result, flush_result, frames, pipeline_builds,
                    command_buffer_builds, swapchain_recreations, iteration,
                    framebuffer_builds >>

DeviceNext == SelectDevice

DeviceSpec == DeviceInit /\ [][DeviceNext]_vars

\* ------------------------------------------------------------ window setup

\* caps.max_image_count: None when the driver sets no limit.
MaxImageCounts(caps_min) == { None, Some(caps_min), Some(caps_min + 1) }

\* An image list made of the images numbered ix, in that order.
ImageList(ix) ==
    [ k \in 0..(Len(ix) - 1) |-> [ swapchain |-> 0, index |-> ix[k + 1] ] ]

\* Image lists handed to create_framebuffers.
ImageLists ==
    { ImageList(ix) : ix \in { << >>, << 0 >>, << 0, 1 >>, << 1, 0 >>, << 0, 1, 2 >> } }

\* Vertex buffers handed to create_command_buffers.
VertexBuffers == { TriangleVertexBuffer, [ usage |-> "VERTEX_BUFFER", len |-> 6 ] }

\* VulkanWindow::new has returned; create_swapchain has not run.
WindowInit ==
    \E size \in Sizes, caps_min \in CapsMinImageCounts :
        \E caps_max \in MaxImageCounts(caps_min) :
            /\ physical_devices = << DefaultDevice >>
            /\ device = Some(create_logical_device(<< DefaultDevice >>).value)
            /\ surface_caps = [ min_image_count |-> caps_min, max_image_count |-> caps_max ]
            /\ window = VulkanWindow_new(size)
            /\ call = [ op |-> "none" ]
            /\ LoopNotStarted(size)

SetupCall(op, args, result) ==
    /\ pc = "setup"
    /\ call' = [ op |-> op, args |-> args, result |-> result ]
    /\ pc' = IF result.panic THEN "aborted" ELSE "setup"
    /\ UNCHANGED << physical_devices, device, surface_caps >>
    /\ UNCHANGED << inner_size, resized_payload, toolset_viewport, viewport, swapchain,
                    images, command_buffer, window_resized, recreate_swapchain,
                    new_dimensions, fences, previous_fence_i, control_flow, image_i,
                    acquire_result, flush_result, frames, pipeline_builds,
                    command_buffer_builds, swapchain_recreations, iteration,
                    framebuffer_builds >>

\* VulkanWindow::create_swapchain, Swapchain::new returning Ok.
CreateSwapchain ==
    /\ ~ window.window_swapchain.some
    /\ LET self == create_swapchain(window, surface_caps, inner_size)
       IN  /\ window' = self
           /\ SetupCall("create_swapchain",
                        CreateInfo(surface_caps.min_image_count, inner_size),
                        get_swapchain(self))

\* VulkanWindow::create_swapchain, Swapchain::new returning Err: unwrap panics.
CreateSwapchainPanics ==
    /\ ~ window.window_swapchain.some
    /\ window' = window
    /\ SetupCall("create_swapchain",
                 CreateInfo(surface_caps.min_image_count, inner_size),
                 Panics("Swapchain::new: unwrap on Err"))

GetSwapchain ==
    /\ window' = window
    /\ SetupCall("get_swapchain", window, get_swapchain(window))

GetRenderPass ==
    /\ window' = window
    /\ SetupCall("get_render_pass", window, get_render_pass(window))

CreateFramebuffers(imgs) ==
    /\ window' = window
    /\ SetupCall("create_framebuffers", imgs, window_create_framebuffers(window, imgs))

\* VulkanToolset::create_command_buffers on the framebuffers of imgs.
CreateCommandBuffers(vbo, imgs) ==
    /\ window.window_render_pass.some
    /\ window' = window
    /\ LET pipeline     == create_graphics_pipeline(toolset_viewport, 1)
           framebuffers == window_create_framebuffers(window, imgs).value
       IN  SetupCall("create_command_buffers",
                     [ vbo |-> vbo, pipeline |-> pipeline, framebuffers |-> framebuffers ],
                     Returns(create_command_buffers(vbo, pipeline, framebuffers)))

WindowNext ==
    \/ CreateSwapchain
    \/ CreateSwapchainPanics
    \/ GetSwapchain
    \/ GetRenderPass
    \/ \E imgs \in ImageLists : CreateFramebuffers(imgs)
    \/ \E vbo \in VertexBuffers, imgs \in ImageLists : CreateCommandBuffers(vbo, imgs)

WindowSpec == WindowInit /\ [][WindowNext]_vars

\* ------------------------------------------------- round-robin presentation

\* The frame loop on a swapchain of RoundRobinImages images that hands its
\* images out in index order, with no resize and no stale swapchain.
RoundRobinImages == 3

\* Iterations followed.
RoundRobinFrames == 4

RoundRobinInit == SetUp(InitialSize, RoundRobinImages - 1)

RoundRobinBegin == BeginFrameWithin(RoundRobinFrames)

\* acquire_next_image returns Ok with indices 0, 1, 2, 0, 1, ...
RoundRobinAcquire == AcquireOk((iteration - 1) % len(images), FALSE)

RoundRobinNext ==
    \/ RoundRobinBegin
    \/ RoundRobinAcquire
    \/ WaitImageFence
    \/ SubmitOk
    \/ SubmitError
    \/ \E f \in 1..RoundRobinFrames : GpuComplete(f)

RoundRobinSpec == RoundRobinInit /\ [][RoundRobinNext]_vars

\* ------------------------------------------------------------- progress

\* The MainEventsCleared handler alone, with what the claim of progress
\* assumes: the GPU gets every queued frame done, and each blocking call of
\* the handler (the acquire, the fence wait once its fence has signaled, the
\* flush) returns.
FrameNext ==
    \/ BeginFrame
    \/ BeginFrameRecreate
    \/ BeginFrameRecreateFails
    \/ \E i \in DOMAIN images, suboptimal \in BOOLEAN : AcquireOk(i, suboptimal)
    \/ AcquireOutOfDate
    \/ AcquireError
    \/ WaitImageFence
    \/ SubmitExecutePanics
    \/ SubmitOk
    \/ SubmitOutOfDate
    \/ SubmitError
    \/ \E f \in 1..MaxIterations : GpuComplete(f)

AcquireReturns ==
    \/ \E i \in DOMAIN images, suboptimal \in BOOLEAN : AcquireOk(i, suboptimal)
    \/ AcquireOutOfDate
    \/ AcquireError

FlushReturns ==
    \/ SubmitExecutePanics
    \/ SubmitOk
    \/ SubmitOutOfDate
    \/ SubmitError

FrameSpec ==
    /\ Init
    /\ [][FrameNext]_vars
    /\ \A f \in 1..MaxIterations : WF_vars(GpuComplete(f))
    /\ WF_vars(AcquireReturns)
    /\ WF_vars(WaitImageFence)
    /\ WF_vars(FlushReturns)

\* ----------------------------------------------------------------- claims

\* The frames whose GPU work is submitted and not complete.
Outstanding == { f \in DOMAIN frames : frames[f].status = "pending" }

\* A step that puts a new frame on the queue.
Submits == Len(frames') = Len(frames) + 1

\* A step in which the MainEventsCleared handler starts and gets through step 1.
BeginsIteration == pc = "idle" /\ pc' = "acquire"

\* A step in which step 1 recreated the swapchain.
Recreates == swapchain'.id # swapchain.id

RebuildCountersUnchanged ==
    /\ pipeline_builds' = pipeline_builds
    /\ command_buffer_builds' = command_buffer_builds

\* C1 - fence safety: when a frame is put on the queue for image index i,
\* every earlier frame that was put on the queue for index i has completed
\* (its fence has signaled).
FenceSafety ==
    [][ Submits =>
          \A n \in DOMAIN frames :
              frames[n].image = frames'[Len(frames')].image
                  => frames[n].status = "done" ]_vars

\* Two frames were submitted for the same image index.
FenceSafetyWitness ==
    \E n, m \in DOMAIN frames : n < m /\ frames[n].image = frames[m].image

\* C2 - slot bound: the frames submitted and not complete are never more than
\* the fence slots (the swapchain image count).
SlotBound == Cardinality(Outstanding) <= len(fences)

\* Every slot holds the fence of an unfinished frame.
SlotBoundWitness ==
    /\ Cardinality(Outstanding) = len(fences)
    /\ \A i \in DOMAIN fences : fences[i] \in Outstanding

\* C3 - staleness handling: an acquire that reports out-of-date ends the
\* iteration with nothing submitted or presented and recreate_swapchain set;
\* the flag stays set until the next iteration, which starts by recreating
\* the swapchain (or aborts because the recreation failed).
OutOfDateAcquireAbandonsFrame ==
    [][ /\ (pc = "acquire" /\ acquire_result' = "OutOfDate")
              => /\ pc' = "idle"
                 /\ frames' = frames
                 /\ flush_result' = "None"
                 /\ recreate_swapchain'
        /\ (pc = "idle" /\ acquire_result = "OutOfDate") => recreate_swapchain
        /\ (pc = "idle" /\ acquire_result = "OutOfDate" /\ pc' # "idle")
              => \/ pc' = "aborted"
                 \/ /\ pc' = "acquire"
                    /\ Recreates
                    /\ swapchain_recreations' = swapchain_recreations + 1 ]_vars

\* An iteration ended on an out-of-date acquire, after an earlier frame.
OutOfDateAcquireWitness ==
    /\ pc = "idle"
    /\ acquire_result = "OutOfDate"
    /\ flush_result = "None"
    /\ recreate_swapchain
    /\ Len(frames) > 0

\* C4 - suboptimal handling: an acquire that succeeds but reports suboptimal
\* goes on to the fence wait and the submission of command_buffer[image_i]
\* with the present of image_i, with recreate_swapchain set (the submission
\* itself may fail as any other, or panic in then_execute's unwrap); the next
\* iteration recreates the swapchain before it acquires.
SuboptimalFrameProceeds ==
    [][ /\ (pc = "acquire" /\ acquire_result' = "Suboptimal")
              => /\ pc' = "wait"
                 /\ image_i' \in DOMAIN images
                 /\ recreate_swapchain'
        /\ (acquire_result = "Suboptimal" /\ pc \in {"wait", "submit"})
              => /\ recreate_swapchain
                 /\ \/ pc' \in {"wait", "submit", "idle"}
                    \/ pc = "submit" /\ flush_result' = "ExecError" /\ pc' = "aborted"
        /\ (acquire_result = "Suboptimal" /\ pc = "submit" /\ pc' = "idle")
              => /\ flush_result' \in {"Ok", "OutOfDate", "Error"}
                 /\ flush_result' = "Ok" =>
                      /\ Submits
                      /\ frames'[Len(frames')].command_buffer = command_buffer[image_i]
                      /\ frames'[Len(frames')].present =
                             [ swapchain |-> swapchain.id, image_index |-> image_i ]
        /\ (acquire_result = "Suboptimal" /\ pc = "idle")
              => /\ recreate_swapchain
                 /\ flush_result # "None"
        /\ (acquire_result = "Suboptimal" /\ pc = "idle" /\ pc' # "idle")
              => \/ pc' = "aborted"
                 \/ /\ pc' = "acquire"
                    /\ Recreates
                    /\ swapchain_recreations' = swapchain_recreations + 1 ]_vars

\* A suboptimal frame was submitted and presented.
SuboptimalFrameWitness ==
    /\ pc = "idle"
    /\ acquire_result = "Suboptimal"
    /\ flush_result = "Ok"
    /\ frames[Len(frames)].present = [ swapchain |-> swapchain.id, image_index |-> image_i ]

\* C5 - resize round-trip: the iteration after a Resized(w,h) event leaves
\* viewport.extent = (w,h) and has advanced both rebuild counters; the rest
\* of the iteration changes none of the three.
ResizeRoundTrip ==
    [][ /\ (BeginsIteration /\ window_resized)
              => /\ viewport'.extent = resized_payload
                 /\ pipeline_builds' > pipeline_builds
                 /\ command_buffer_builds' > command_buffer_builds
        /\ pc \in {"acquire", "wait", "submit"}
              => /\ viewport' = viewport
                 /\ RebuildCountersUnchanged ]_vars

\* An iteration serviced a resize to a size other than the initial one.
ResizeRoundTripWitness ==
    /\ pc = "idle"
    /\ iteration > 0
    /\ ~window_resized
    /\ resized_payload # InitialSize
    /\ viewport.extent = resized_payload
    /\ pipeline_builds > 1
    /\ command_buffer_builds > 1

\* C6 - an iteration that services a resize calls create_graphics_pipeline
\* once and create_command_buffers once, whatever the number of images; no
\* Resized event and no other step calls either.
OneRebuildPerResize ==
    [][ /\ (BeginsIteration /\ window_resized)
              => /\ pipeline_builds' = pipeline_builds + 1
                 /\ command_buffer_builds' = command_buffer_builds + 1
        /\ ~BeginsIteration => RebuildCountersUnchanged ]_vars

\* One resize was serviced on a swapchain of several images.
OneRebuildPerResizeWitness ==
    /\ pc = "acquire"
    /\ len(images) > 1
    /\ viewport.extent # InitialSize
    /\ pipeline_builds = 2
    /\ command_buffer_builds = 2

\* C7 - (the claim, which the code violates) every swapchain recreation
\* leaves a command buffer set recorded against the framebuffers of the new
\* swapchain's images.
RecreationRebuildsCommandBuffers ==
    [][ Recreates =>
          /\ DOMAIN command_buffer' = DOMAIN images'
          /\ \A k \in DOMAIN command_buffer' :
                 command_buffer'[k].framebuffer.attachments = << images'[k] >> ]_vars

\* C8 - (the claim, which the code violates) after an iteration that
\* services a resize, the viewport of the pipeline bound by the command
\* buffers has the extent given to the recreated swapchain.
ResizeRebuildsPipelineViewport ==
    [][ (BeginsIteration /\ window_resized) =>
          \A k \in DOMAIN command_buffer' :
              \A v \in DOMAIN command_buffer'[k].pipeline.viewports :
                  command_buffer'[k].pipeline.viewports[v].extent
                      = swapchain'.create_info.image_extent ]_vars

\* C9 - a recreation triggered by recreate_swapchain alone leaves the
\* viewport and the pipeline of every command buffer as they were; only an
\* iteration that services a resize builds a pipeline.
StaleOnlyKeepsPipeline ==
    [][ /\ (BeginsIteration /\ ~window_resized /\ recreate_swapchain)
              => /\ Recreates
                 /\ viewport' = viewport
                 /\ pipeline_builds' = pipeline_builds
                 /\ DOMAIN command_buffer' = DOMAIN command_buffer
                 /\ \A k \in DOMAIN command_buffer :
                        command_buffer'[k].pipeline = command_buffer[k].pipeline
        /\ pipeline_builds' # pipeline_builds
              => (BeginsIteration /\ window_resized) ]_vars

\* A recreation happened and no pipeline was built for it.
StaleOnlyWitness ==
    /\ pc = "acquire"
    /\ swapchain.id > 0
    /\ pipeline_builds = 1

\* C10 - recreation idempotence: a recreation that reads the drawable size
\* the recreation before it read yields the extent and the image count that
\* one yielded.
RecreationIdempotent ==
    [][ (Recreates /\ swapchain.id > 0 /\ new_dimensions = inner_size)
          => /\ swapchain'.create_info.image_extent = swapchain.create_info.image_extent
             /\ len(images') = len(images) ]_vars

\* Two recreations in a row with no Resized event since the window opened.
RecreationIdempotentWitness ==
    /\ swapchain.id = 2
    /\ pipeline_builds = 1
    /\ ~window_resized
    /\ inner_size = InitialSize
    /\ swapchain.create_info.image_extent = InitialSize

\* C11 - a recreation changes only the extent: format, composite alpha,
\* usage, minimum image count and present mode are those of the swapchain
\* before it, and the extent is the drawable size read by the recreation.
RecreationChangesOnlyExtent ==
    [][ Recreates =>
          /\ swapchain'.create_info.image_format = swapchain.create_info.image_format
          /\ swapchain'.create_info.composite_alpha = swapchain.create_info.composite_alpha
          /\ swapchain'.create_info.image_usage = swapchain.create_info.image_usage
          /\ swapchain'.create_info.min_image_count = swapchain.create_info.min_image_count
          /\ swapchain'.create_info.present_mode = swapchain.create_info.present_mode
          /\ swapchain'.create_info.image_extent = inner_size
          /\ new_dimensions' = inner_size ]_vars

\* A recreation gave the swapchain an extent other than the one it was created with.
RecreationChangesOnlyExtentWitness ==
    /\ swapchain.id > 0
    /\ swapchain.create_info.image_extent # InitialSize
    /\ swapchain.create_info.image_extent = new_dimensions

\* The larger of two numbers.
Max(a, b) == IF a >= b THEN a ELSE b

\* C12 - the image count create_swapchain requests is max(driver minimum + 1, 1)
\* and, when the driver reports a bounded maximum (the maximum equal to the
\* minimum included), is not above that maximum.
RequestedImageCountWithinCaps ==
    call.op = "create_swapchain" =>
        /\ call.args.min_image_count = Max(surface_caps.min_image_count + 1, 1)
        /\ surface_caps.max_image_count.some =>
               call.args.min_image_count <= surface_caps.max_image_count.value

\* C13 - at every acquire (and through the rest of the iteration) the fence
\* slots and the command buffers are each as many as the images of the current
\* swapchain, whatever recreations came before, so the acquired index is an
\* index of both.
SlotsMatchImages ==
    /\ pc \in { "acquire", "wait", "submit" } =>
           /\ DOMAIN fences = DOMAIN images
           /\ DOMAIN command_buffer = DOMAIN images
           /\ len(fences) = len(images)
           /\ len(command_buffer) = len(images)
    /\ pc \in { "wait", "submit" } =>
           /\ image_i \in DOMAIN fences
           /\ image_i \in DOMAIN command_buffer

SlotsMatchImagesWitness ==
    /\ pc = "wait"
    /\ swapchain_recreations >= 2
    /\ image_i = len(images) - 1
    /\ image_i > 0

\* C14 - a fence slot is empty or holds the fence of the most recent frame
\* queued for its image index; the iteration that reaches submission leaves in
\* the slot of the acquired index that frame's fence if the flush returned Ok
\* and nothing otherwise, leaves the other slots alone, and sets the
\* previous-frame cursor to the acquired index.
FenceSlotContents ==
    /\ [](\A i \in DOMAIN fences :
              \/ fences[i] = NoFence
              \/ /\ fences[i] \in DOMAIN frames
                 /\ frames[fences[i]].image = i
                 /\ \A g \in DOMAIN frames : frames[g].image = i => g <= fences[i])
    /\ [][ (pc = "submit" /\ pc' = "idle") =>
             /\ previous_fence_i' = image_i
             /\ image_i' = image_i
             /\ \A j \in DOMAIN fences : j # image_i => fences'[j] = fences[j]
             /\ IF flush_result' = "Ok"
                THEN /\ Submits
                     /\ frames'[Len(frames')].image = image_i
                     /\ fences'[image_i] = Len(frames')
                ELSE /\ frames' = frames
                     /\ fences'[image_i] = NoFence ]_vars

\* A successful flush has replaced the fence of an earlier frame on the same index.
FenceSlotContentsWitness ==
    /\ pc = "idle"
    /\ flush_result = "Ok"
    /\ previous_fence_i = image_i
    /\ fences[image_i] = Len(frames)
    /\ \E g \in DOMAIN frames : g < Len(frames) /\ frames[g].image = image_i

\* C15 - the render pass is the one create_swapchain made, with the
\* swapchain's image format; no step of the loop replaces it, and every
\* framebuffer the command buffers render into, after any recreations, is
\* built against it.
RenderPassCreatedOnce ==
    /\ [](/\ window.window_render_pass.some
          /\ window.window_render_pass.value.created_in = "create_swapchain"
          /\ window.window_render_pass.value.format = swapchain.create_info.image_format
          /\ window.window_render_pass.value.format =
                 window.window_swapchain.value.create_info.image_format
          /\ \A k \in DOMAIN command_buffer :
                 command_buffer[k].framebuffer.render_pass = window.window_render_pass.value)
    /\ [][ window'.window_render_pass = window.window_render_pass ]_vars

\* The command buffers render into the images of a swapchain recreated twice.
RenderPassCreatedOnceWitness ==
    /\ swapchain.id >= 2
    /\ \A k \in DOMAIN command_buffer :
           /\ command_buffer[k].framebuffer.attachments[1].swapchain = swapchain.id
           /\ command_buffer[k].framebuffer.render_pass = window.window_render_pass.value

\* C16 - create_framebuffers returns one framebuffer per image it is given,
\* in the same order; framebuffer k has the single attachment that views image
\* k and is built against the stored render pass, so the result is a function
\* of the image list and that render pass alone.
FramebufferPerImage ==
    (call.op = "create_framebuffers" /\ ~ call.result.panic) =>
        LET imgs == call.args
            fbs  == call.result.value
        IN  /\ DOMAIN fbs = DOMAIN imgs
            /\ len(fbs) = len(imgs)
            /\ \A k \in DOMAIN fbs :
                   /\ Len(fbs[k].attachments) = 1
                   /\ fbs[k].attachments[1] = imgs[k]
                   /\ fbs[k].render_pass = window.window_render_pass.value
                   /\ DOMAIN fbs[k] = { "render_pass", "attachments" }

\* Two images given out of index order come back as two framebuffers in that order.
FramebufferPerImageWitness ==
    /\ call.op = "create_framebuffers"
    /\ ~ call.result.panic
    /\ len(call.result.value) = 2
    /\ call.args[0].index = 1
    /\ call.result.value[0].attachments[1].index = 1
    /\ call.result.value[1].attachments[1].index = 0

\* C17 - create_command_buffers returns one primary, multiple-submit command
\* buffer per framebuffer, in framebuffer order; command buffer k records
\* exactly: begin render pass on framebuffer k with one clear value, bind the
\* pipeline, bind the vertex buffer at binding 0, draw all its vertices in one
\* instance, end render pass.
CommandRecorder ==
    call.op = "create_command_buffers" =>
        LET vbo  == call.args.vbo
            fbs  == call.args.framebuffers
            cbs  == call.result.value
        IN  /\ ~ call.result.panic
            /\ DOMAIN cbs = DOMAIN fbs
            /\ len(cbs) = len(fbs)
            /\ \A k \in DOMAIN cbs :
                   /\ cbs[k].level = "primary"
                   /\ cbs[k].usage = "MultipleSubmit"
                   /\ Len(cbs[k].commands) = 5
                   /\ cbs[k].commands[1].op = "begin_render_pass"
                   /\ cbs[k].commands[1].framebuffer = fbs[k]
                   /\ Len(cbs[k].commands[1].clear_values) = 1
                   /\ cbs[k].commands[2].op = "bind_pipeline_graphics"
                   /\ cbs[k].commands[2].pipeline = call.args.pipeline
                   /\ cbs[k].commands[3].op = "bind_vertex_buffers"
                   /\ cbs[k].commands[3].first_binding = 0
                   /\ cbs[k].commands[3].buffer = vbo
                   /\ cbs[k].commands[4].op = "draw"
                   /\ cbs[k].commands[4].vertex_count = vbo.len
                   /\ cbs[k].commands[4].instance_count = 1
                   /\ cbs[k].commands[5].op = "end_render_pass"

\* Two framebuffers and a vertex buffer that is not the triangle's.
CommandRecorderWitness ==
    /\ call.op = "create_command_buffers"
    /\ len(call.result.value) = 2
    /\ call.args.vbo # TriangleVertexBuffer
    /\ call.args.framebuffers[0] # call.args.framebuffers[1]
    /\ call.result.value[1].commands[1].framebuffer = call.args.framebuffers[1]

\* What get_swapchain and get_render_pass do after a call: abort on a window
\* create_swapchain has not run on, return what it stored otherwise.
GettersAbortBeforeCreation ==
    /\ call.op = "get_swapchain" =>
           IF window.window_swapchain.some
           THEN /\ ~ call.result.panic
                /\ call.result.value =
                       << window.window_swapchain.value, window.window_images.value >>
           ELSE call.result.panic /\ pc = "aborted"
    /\ call.op = "get_render_pass" =>
           IF window.window_swapchain.some
           THEN /\ ~ call.result.panic
                /\ call.result.value = window.window_render_pass.value
           ELSE call.result.panic /\ pc = "aborted"
    /\ (call.op = "create_swapchain" /\ ~ call.result.panic) =>
           /\ window.window_render_pass.some
           /\ call.result.value =
                  << window.window_swapchain.value, window.window_images.value >>

\* C18 - get_swapchain, get_render_pass and create_framebuffers all abort on a
\* VulkanWindow on which create_swapchain has not run; after create_swapchain
\* they return or use exactly what it stored.
AccessBeforeCreationAborts ==
    /\ GettersAbortBeforeCreation
    /\ call.op = "create_framebuffers" =>
           IF window.window_swapchain.some
           THEN /\ ~ call.result.panic
                /\ \A k \in DOMAIN call.result.value :
                       call.result.value[k].render_pass = window.window_render_pass.value
           ELSE call.result.panic /\ pc = "aborted"

\* C18, amended - as above, except that create_framebuffers aborts on such a
\* window only when it is given at least one image: given no image it returns
\* an empty list and never looks at the render pass.
AccessBeforeCreationAbortsGivenImages ==
    /\ GettersAbortBeforeCreation
    /\ call.op = "create_framebuffers" =>
           IF DOMAIN call.args = {}
           THEN ~ call.result.panic /\ DOMAIN call.result.value = {}
           ELSE IF window.window_swapchain.some
                THEN /\ ~ call.result.panic
                     /\ \A k \in DOMAIN call.result.value :
                            call.result.value[k].render_pass = window.window_render_pass.value
                ELSE call.result.panic /\ pc = "aborted"

\* create_framebuffers, given an image, has aborted on a window without a swapchain.
AccessBeforeCreationWitness ==
    /\ call.op = "create_framebuffers"
    /\ DOMAIN call.args # {}
    /\ ~ window.window_swapchain.some
    /\ ~ window.window_render_pass.some
    /\ call.result.panic
    /\ pc = "aborted"

\* The order of preference of device kinds: discrete first, other last.
KindPreference == << "DiscreteGpu", "IntegratedGpu", "VirtualGpu", "Cpu", "Other" >>

\* The place of a device's kind in KindPreference.
KindPlace(p) == CHOOSE n \in DOMAIN KindPreference : KindPreference[n] = p.device_type

\* A queue family that does graphics and presents to the surface.
GraphicsAndPresent(q) == q.graphics /\ q.surface_support

\* A device that supports the swapchain extension and has such a family.
Qualifies(p) ==
    /\ p.khr_swapchain
    /\ \E i \in DOMAIN p.queue_family_properties :
           GraphicsAndPresent(p.queue_family_properties[i])

\* C19 - among the devices that support the swapchain extension and have a
\* queue family doing both graphics and presentation, the selected one has
\* the best kind (discrete > integrated > virtual > CPU > other); its selected
\* family does both; the selection is fixed by the device list (the first
\* device of the best kind, its first such family); and when no device
\* qualifies, creation aborts.
DeviceSelection ==
    call.op = "create_logical_device" =>
        LET devs == call.args
            q    == { d \in DOMAIN devs : Qualifies(devs[d]) }
        IN  IF q = {}
            THEN call.result.panic /\ pc = "aborted" /\ ~ device.some
            ELSE /\ ~ call.result.panic
                 /\ pc # "aborted"
                 /\ device = Some(call.result.value)
                 /\ LET d   == device.value.physical_device
                        fam == devs[d].queue_family_properties
                        f   == device.value.queue_family_index + 1
                    IN  /\ d \in q
                        /\ \A e \in q : KindPlace(devs[d]) <= KindPlace(devs[e])
                        /\ \A e \in q : KindPlace(devs[e]) = KindPlace(devs[d]) => d <= e
                        /\ f \in DOMAIN fam
                        /\ GraphicsAndPresent(fam[f])
                        /\ \A g \in DOMAIN fam : GraphicsAndPresent(fam[g]) => f <= g

\* An integrated device listed ahead of a discrete one, both qualifying: the
\* discrete one is selected, with a family that is not its first.
DeviceSelectionWitness ==
    /\ call.op = "create_logical_device"
    /\ ~ call.result.panic
    /\ Len(physical_devices) = 2
    /\ Qualifies(physical_devices[1])
    /\ physical_devices[1].device_type = "IntegratedGpu"
    /\ physical_devices[2].device_type = "DiscreteGpu"
    /\ device.value.physical_device = 2
    /\ device.value.queue_family_index = 1

\* C20 - when the flush of a frame returns OutOfDate, the stale flag is set,
\* the slot of the acquired index is left empty and no frame is queued, the
\* process goes on, the flag stays set until the next iteration starts, and
\* that iteration recreates the swapchain before it acquires (or aborts in
\* the expect on a failed recreation).
OutOfDateSubmitRecovers ==
    /\ [][ (pc = "submit" /\ flush_result' = "OutOfDate") =>
             /\ recreate_swapchain'
             /\ fences'[image_i] = NoFence
             /\ frames' = frames
             /\ pc' = "idle"
             /\ control_flow' = control_flow ]_vars
    /\ []((pc = "idle" /\ flush_result = "OutOfDate") =>
             recreate_swapchain /\ fences[image_i] = NoFence)
    /\ [][ (pc = "idle" /\ flush_result = "OutOfDate" /\ pc' # "idle") =>
             \/ pc' = "acquire" /\ Recreates /\ ~ recreate_swapchain'
             \/ pc' = "aborted" /\ swapchain' = swapchain ]_vars

\* A flush has returned OutOfDate for an index whose slot held an earlier fence.
OutOfDateSubmitWitness ==
    /\ pc = "idle"
    /\ flush_result = "OutOfDate"
    /\ recreate_swapchain
    /\ control_flow = "Poll"
    /\ fences[image_i] = NoFence
    /\ \E g \in DOMAIN frames : frames[g].image = image_i

\* C21 - a failure of a frame's submission other than out-of-date, anywhere in
\* the execute / present / fence-and-flush chain, is not fatal: the slot of the
\* acquired index is left empty, no frame is queued, the stale flag is not
\* touched, and the loop goes on to its next iteration.
SubmissionFailureNotFatal ==
    [][ (pc = "submit" /\ flush_result' \notin { "Ok", "OutOfDate" }) =>
          /\ pc' = "idle"
          /\ control_flow' = control_flow
          /\ fences'[image_i] = NoFence
          /\ frames' = frames
          /\ recreate_swapchain' = recreate_swapchain ]_vars

\* C22 - an acquire failure other than out-of-date is fatal: the loop aborts
\* in that iteration, having submitted and presented nothing and with the
\* fence slots as they were; nothing runs after the abort.
AcquireFailureFatal ==
    /\ [][ (pc = "acquire" /\ acquire_result' = "Error") =>
             /\ pc' = "aborted"
             /\ frames' = frames
             /\ fences' = fences
             /\ previous_fence_i' = previous_fence_i
             /\ flush_result' = "None" ]_vars
    /\ [][ (pc = "aborted" /\ acquire_result = "Error") => UNCHANGED vars ]_vars
    /\ []((acquire_result = "Error") => (pc = "aborted" /\ flush_result = "None"))

\* The acquire of a later iteration failed: the fence of an earlier frame is
\* still in its slot.
AcquireFailureFatalWitness ==
    /\ pc = "aborted"
    /\ acquire_result = "Error"
    /\ iteration >= 2
    /\ \E i \in DOMAIN fences : fences[i] # NoFence

\* A step in which a MainEventsCleared handler starts.
StartsIteration == iteration' = iteration + 1

\* C23 - an iteration recreates the swapchain, and builds the framebuffers
\* anew, exactly when window_resized or recreate_swapchain was set as it
\* began (a recreation that fails aborts there); the recreation is part of
\* the step that precedes the acquire, and at the acquire both flags are
\* false.
RecreationIffFlagged ==
    /\ [][ StartsIteration =>
             /\ pc = "idle"
             /\ IF window_resized \/ recreate_swapchain
                THEN \/ /\ pc' = "acquire"
                        /\ Recreates
                        /\ swapchain_recreations' = swapchain_recreations + 1
                        /\ framebuffer_builds' = framebuffer_builds + 1
                        /\ \A k \in DOMAIN images' : images'[k].swapchain = swapchain'.id
                     \/ /\ pc' = "aborted"
                        /\ ~ Recreates
                ELSE /\ pc' = "acquire"
                     /\ swapchain' = swapchain
                     /\ images' = images
                     /\ swapchain_recreations' = swapchain_recreations
                     /\ framebuffer_builds' = framebuffer_builds ]_vars
    /\ [][ ( \/ Recreates
             \/ images' # images
             \/ swapchain_recreations' # swapchain_recreations
             \/ framebuffer_builds' # framebuffer_builds )
           => (StartsIteration /\ pc' = "acquire") ]_vars
    /\ [](pc = "acquire" => (~ window_resized /\ ~ recreate_swapchain))

\* An acquire is about to be called after a recreation on window_resized and
\* one on recreate_swapchain alone.
RecreationIffFlaggedWitness ==
    /\ pc = "acquire"
    /\ swapchain_recreations = 2
    /\ framebuffer_builds = 3
    /\ command_buffer_builds = 2
    /\ ~ window_resized
    /\ ~ recreate_swapchain

\* A step in which a Resized event is handled: the drawable size or the
\* event's payload changes, or window_resized goes up.
HandlesResized ==
    \/ inner_size' # inner_size
    \/ resized_payload' # resized_payload
    \/ window_resized' /\ ~ window_resized

\* What step 1 rebuilds.
Rebuilt == << swapchain, images, viewport, toolset_viewport, command_buffer,
              new_dimensions, pipeline_builds, command_buffer_builds,
              swapchain_recreations, framebuffer_builds >>

\* C24 - handling Resized sets window_resized and nothing else: swapchain,
\* framebuffers, viewport, pipeline, command buffers, fence slots,
\* recreate_swapchain and previous_fence_i stay as they are; whatever is
\* rebuilt is rebuilt in step 1 of an iteration, never between its acquire
\* and its present.
ResizedOnlySetsFlag ==
    /\ [][ HandlesResized =>
             /\ window_resized'
             /\ UNCHANGED Rebuilt
             /\ UNCHANGED << fences, recreate_swapchain, previous_fence_i, frames,
                             pc, control_flow, image_i, iteration >> ]_vars
    /\ [][ (Rebuilt' # Rebuilt) => (pc = "idle" /\ StartsIteration) ]_vars
    /\ [][ (pc \in { "acquire", "wait", "submit" }) =>
             (UNCHANGED Rebuilt /\ window_resized' = window_resized) ]_vars

\* A resize is pending after a frame was presented: nothing has been rebuilt yet.
ResizedOnlySetsFlagWitness ==
    /\ pc = "idle"
    /\ window_resized
    /\ Len(frames) > 0
    /\ inner_size # InitialSize
    /\ swapchain.create_info.image_extent = InitialSize
    /\ viewport.extent = InitialSize
    /\ swapchain_recreations = 0
    /\ \E i \in DOMAIN fences : fences[i] # NoFence

\* The fence the acquired index's slot holds has not signaled.
SlotFencePending ==
    IF fences[image_i] = NoFence THEN FALSE ELSE frames[fences[image_i]].status = "pending"

\* C25 - before it submits, an iteration blocks on the fence in the slot of
\* the acquired index while that slot is occupied by a fence that has not
\* signaled, and does not block when the slot is empty; with three images
\* acquired in the order 0,1,2,0,... and every flush Ok, the fourth frame is
\* not submitted until the first frame's fence has signaled.
FenceWaitBlocks ==
    /\ [](pc = "wait" => (ENABLED WaitImageFence <=> ~ SlotFencePending))
    /\ [][ (pc = "wait" /\ pc' = "submit") => ~ SlotFencePending ]_vars
    /\ []((pc = "idle" /\ Len(frames) = iteration) =>
             \A f \in DOMAIN frames :
                 f > len(images) => frames[f - len(images)].status = "done")

\* The fourth iteration has acquired index 0 again and is blocked: the first
\* frame's fence, in slot 0, has not signaled.
FenceWaitBlocksWitness ==
    /\ pc = "wait"
    /\ iteration = len(images) + 1
    /\ Len(frames) = len(images)
    /\ image_i = 0
    /\ fences[0] = 1
    /\ frames[1].status = "pending"
    /\ ~ ENABLED WaitImageFence

\* C26 - each submission waits for the join of this iteration's acquire with
\* the fence the immediately preceding frame recorded at previous_fence_i, or
\* with an already-satisfied now marker when that frame recorded none (the
\* first frame and the frame after a failed submission included); it never
\* waits for the fence of an older frame.
WaitDependency ==
    /\ [](\A f \in DOMAIN frames :
              /\ frames[f].wait_for \in { NoFence, f - 1 }
              /\ frames[f].acquired.image_index = frames[f].image
              /\ frames[f].acquired = frames[f].present)
    /\ [][ Submits =>
             /\ frames'[Len(frames')].wait_for = fences[previous_fence_i]
             /\ frames'[Len(frames')].acquired =
                    [ swapchain |-> swapchain.id, image_index |-> image_i ] ]_vars
    /\ []((pc = "idle" /\ flush_result = "Ok") =>
              fences[previous_fence_i] = Len(frames))
    /\ []((pc = "idle" /\ flush_result \in { "OutOfDate", "Error" }) =>
              fences[previous_fence_i] = NoFence)
    /\ []((frames = << >>) => \A i \in DOMAIN fences : fences[i] = NoFence)
    /\ [][ (pc # "submit") =>
             (fences' = fences /\ previous_fence_i' = previous_fence_i) ]_vars

\* The frame after a failed flush waits for nothing, though the fence of the
\* frame before it is still in its slot.
WaitDependencyWitness ==
    /\ Len(frames) = 2
    /\ iteration = 3
    /\ frames[2].wait_for = NoFence
    /\ frames[2].image # frames[1].image
    /\ fences[frames[1].image] = 1
    /\ fences[frames[2].image] = 2

\* The queue up to its first n entries, without the GPU's progress on them.
Requests(q, n) ==
    [ f \in 1..n |-> << q[f].command_buffer, q[f].present >> ]

\* C27 - an iteration whose flush returns Ok puts on the queue, after
\* everything already there, one execution of command_buffer[image_i]
\* followed by one present of image_i on the current swapchain; no other step
\* adds, removes or reorders queue entries, so presents are requested in the
\* order of submission.
PresentFollowsSubmission ==
    /\ [][ (pc = "submit" /\ flush_result' = "Ok") =>
             /\ Len(frames') = Len(frames) + 1
             /\ Requests(frames', Len(frames)) = Requests(frames, Len(frames))
             /\ frames'[Len(frames')].command_buffer = command_buffer[image_i]
             /\ frames'[Len(frames')].present =
                    [ swapchain |-> swapchain.id, image_index |-> image_i ]
             /\ frames'[Len(frames')].present.image_index \in DOMAIN images ]_vars
    /\ [][ ~ (pc = "submit" /\ flush_result' = "Ok") =>
             /\ Len(frames') = Len(frames)
             /\ Requests(frames', Len(frames)) = Requests(frames, Len(frames)) ]_vars
    /\ [](\A f \in DOMAIN frames : \A g \in DOMAIN frames :
              f < g => frames[f].present.swapchain <= frames[g].present.swapchain)

\* Three frames presented in turn, the swapchain recreated between the first
\* and the last.
PresentFollowsSubmissionWitness ==
    /\ Len(frames) = 3
    /\ frames[1].present.swapchain < frames[3].present.swapchain
    /\ frames[1].present.image_index # frames[2].present.image_index

\* C28 - the loop runs until CloseRequested: that event, handled between two
\* handler calls whatever fences are outstanding, requests exit and changes
\* nothing else; after it nothing runs; and short of it only a fatal abort
\* stops the loop.
RunsUntilCloseRequested ==
    /\ [][ (control_flow' # control_flow) =>
             /\ control_flow = "Poll"
             /\ control_flow' = "Exit"
             /\ pc = "idle"
             /\ UNCHANGED << frames, fences, pc, swapchain, iteration >> ]_vars
    /\ [][ (control_flow = "Exit") => UNCHANGED vars ]_vars
    /\ []((control_flow = "Poll" /\ pc = "idle") => ENABLED CloseRequested)
    /\ []((control_flow = "Poll" /\ pc # "aborted") => ENABLED Next)
    /\ []((control_flow = "Exit" \/ pc = "aborted") => ~ ENABLED Next)

\* Exit was requested while a submitted frame had not finished.
RunsUntilCloseRequestedWitness ==
    /\ control_flow = "Exit"
    /\ pc = "idle"
    /\ Outstanding # {}
    /\ \E i \in DOMAIN fences : fences[i] \in Outstanding

\* C29 - every command buffer the loop submits renders into a framebuffer
\* built from an image of the swapchain current at submission, the one the
\* frame was acquired from and is presented to, whatever recreations came
\* before.
SubmitsIntoCurrentSwapchain ==
    /\ [](\A f \in DOMAIN frames :
              /\ frames[f].acquired.swapchain = frames[f].present.swapchain
              /\ \A a \in DOMAIN frames[f].command_buffer.framebuffer.attachments :
                     frames[f].command_buffer.framebuffer.attachments[a].swapchain =
                         frames[f].present.swapchain)
    /\ [][ Submits =>
             /\ frames'[Len(frames')].present.swapchain = swapchain.id
             /\ frames'[Len(frames')].command_buffer.framebuffer.attachments[1]
                    = images[image_i] ]_vars

\* C30 - given that every queued frame's fence signals in the end and every
\* acquire returns, an iteration that has started finishes (returns or
\* aborts): a slot holds nothing or the fence of a frame that was queued, a
\* failed submission leaving none, so the fence wait is never on a fence that
\* cannot signal.
IterationFinishes ==
    /\ [](\A i \in DOMAIN fences : fences[i] # NoFence => fences[i] \in DOMAIN frames)
    /\ [](\A f \in DOMAIN frames :
              frames[f].wait_for # NoFence => frames[f].wait_for \in 1..(f - 1))
    /\ (pc \in { "acquire", "wait", "submit" }) ~> (pc \in { "idle", "aborted" })

\* The handler is held at the fence wait on a fence that has not signaled,
\* after a submission that failed.
IterationFinishesWitness ==
    /\ pc = "wait"
    /\ SlotFencePending
    /\ ~ ENABLED WaitImageFence
    /\ iteration > Len(frames) + 1

\* ------------------------------------------------- persistent out-of-date

\* The frame loop on a surface that stays out of date: every
\* acquire_next_image returns Err(VulkanError::OutOfDate), while Resized
\* events keep arriving and swapchain.recreate returns Ok or Err.
OutOfDateNext ==
    \/ \E size \in Sizes : Resized(size)
    \/ BeginFrame
    \/ BeginFrameRecreate
    \/ BeginFrameRecreateFails
    \/ AcquireOutOfDate

OutOfDateSpec == Init /\ [][OutOfDateNext]_vars

\* The command buffers are those create_command_buffers records against the
\* framebuffers of the live swapchain's images.
RecordedAgainstLiveImages ==
    /\ DOMAIN command_buffer = DOMAIN images
    /\ \A k \in DOMAIN command_buffer :
           command_buffer[k].framebuffer.attachments = << images[k] >>

\* C31 - on a surface that is out of date at every acquire, an iteration that
\* starts with window_resized set rebuilds the swapchain (at the drawable
\* size), the pipeline and the command buffer set in step 1, before its
\* acquire, and the out-of-date acquire undoes none of it; every iteration
\* after an out-of-date acquire recreates the swapchain once; nothing is ever
\* submitted; and the process never aborts at an acquire: the one abort left
\* is the expect of step 1 on a recreation that failed, before any acquire of
\* that iteration.
ResizeHonoured ==
    /\ [][ (StartsIteration /\ window_resized) =>
             \/ /\ pc' = "acquire"
                /\ Recreates
                /\ swapchain'.create_info.image_extent = inner_size
                /\ pipeline_builds' = pipeline_builds + 1
                /\ command_buffer_builds' = command_buffer_builds + 1
                /\ RecordedAgainstLiveImages'
                /\ \A k \in DOMAIN command_buffer' :
                       command_buffer'[k].pipeline.id = pipeline_builds'
                /\ ~ window_resized'
             \/ /\ pc' = "aborted"
                /\ acquire_result' = "None" ]_vars
    /\ [][ (pc = "acquire") =>
             /\ acquire_result' = "OutOfDate"
             /\ pc' = "idle"
             /\ recreate_swapchain'
             /\ UNCHANGED Rebuilt ]_vars
    /\ [][ (StartsIteration /\ acquire_result = "OutOfDate") =>
             \/ pc' = "acquire" /\ swapchain_recreations' = swapchain_recreations + 1
             \/ pc' = "aborted" /\ acquire_result' = "None" ]_vars
    /\ [](frames = << >> /\ flush_result = "None")
    /\ [](pc = "aborted" => acquire_result = "None")
    /\ [](pc # "aborted" => swapchain_recreations \in { iteration - 1, iteration })

\* A resize was serviced in the first of three iterations that all ended on
\* an out-of-date acquire: three recreations, one pipeline and command buffer
\* rebuild, nothing submitted, the loop still running.
ResizeHonouredWitness ==
    /\ pc = "idle"
    /\ iteration = 3
    /\ acquire_result = "OutOfDate"
    /\ swapchain_recreations = 3
    /\ pipeline_builds = 2
    /\ command_buffer_builds = 2
    /\ swapchain.create_info.image_extent # InitialSize
    /\ viewport.extent = swapchain.create_info.image_extent
    /\ ~ window_resized
    /\ recreate_swapchain
    /\ frames = << >>

\* The fence in slot i was recorded by a frame acquired from a swapchain that
\* has since been retired.
SlotHoldsRetiredFence(i) ==
    IF fences[i] = NoFence
    THEN FALSE
    ELSE frames[fences[i]].acquired.swapchain # swapchain.id

\* C32 - step 1, recreation included, leaves fences, previous_fence_i and the
\* queued frames as they are; an iteration on the recreated swapchain that
\* acquires index i while slot i holds a fence of the retired swapchain
\* blocks until that fence has signaled, and its submission is chained after
\* fences[previous_fence_i] though that fence, too, belongs to the retired
\* swapchain.
RecreationKeepsFences ==
    /\ [][ (StartsIteration \/ Recreates) =>
             /\ fences' = fences
             /\ previous_fence_i' = previous_fence_i
             /\ frames' = frames ]_vars
    /\ []((pc = "wait" /\ SlotHoldsRetiredFence(image_i)) =>
             (ENABLED WaitImageFence <=> frames[fences[image_i]].status = "done"))
    /\ [][ (Submits /\ SlotHoldsRetiredFence(previous_fence_i)) =>
             /\ frames'[Len(frames')].wait_for = fences[previous_fence_i]
             /\ frames'[Len(frames')].acquired.swapchain = swapchain.id ]_vars

\* The first frame on a recreated swapchain is queued: it acquired the index
\* of the frame before it, waited for that frame's fence, left in the slot by
\* the retired swapchain, and is chained after it.
RecreationKeepsFencesWitness ==
    /\ pc = "idle"
    /\ Len(frames) = 2
    /\ swapchain_recreations = 1
    /\ frames[1].acquired.swapchain = 0
    /\ frames[2].acquired.swapchain = 1
    /\ frames[2].image = frames[1].image
    /\ frames[2].wait_for = 1
    /\ frames[1].status = "done"
    /\ fences[frames[2].image] = 2

\* C33 - an acquire that reports out-of-date sets recreate_swapchain and
\* returns: the fence slots, previous_fence_i, the queued frames, the command
\* buffer set, the swapchain and its images, the viewport, window_resized and
\* every rebuild counter are after it what they were before it.
OutOfDateAcquireOnlySetsFlag ==
    [][ (pc = "acquire" /\ acquire_result' = "OutOfDate") =>
          /\ recreate_swapchain'
          /\ pc' = "idle"
          /\ UNCHANGED << fences, previous_fence_i, frames, command_buffer,
                          swapchain, images, viewport, toolset_viewport,
                          window_resized, new_dimensions, inner_size,
                          resized_payload, control_flow, image_i, flush_result,
                          iteration >>
          /\ UNCHANGED << pipeline_builds, command_buffer_builds,
                          swapchain_recreations, framebuffer_builds >> ]_vars

\* The acquire on a recreated swapchain reported out-of-date while the slot
\* the cursor points at, other than slot 0, still holds the fence of the
\* frame submitted on the first swapchain.
OutOfDateAcquireOnlySetsFlagWitness ==
    /\ pc = "idle"
    /\ acquire_result = "OutOfDate"
    /\ iteration = 2
    /\ swapchain.id = 1
    /\ recreate_swapchain
    /\ previous_fence_i = 1
    /\ fences[1] = 1
    /\ frames[1].acquired.swapchain = 0
    /\ DOMAIN command_buffer = DOMAIN images

\* The process has aborted in step 1: no acquire and no flush of the
\* iteration was reached.
AbortedInStepOne ==
    pc = "aborted" /\ acquire_result = "None" /\ flush_result = "None"

\* C34 - an iteration that starts with window_resized or recreate_swapchain
\* set and whose swapchain.recreate fails aborts in step 1: it does not
\* return with recreate_swapchain set for a retry, the swapchain, the command
\* buffers, the fence slots and the queue stay as they were, and no acquire,
\* submission, present or further iteration follows; no other failure aborts
\* an iteration before its acquire.
RecreationFailureFatal ==
    /\ [][ (StartsIteration /\ (window_resized \/ recreate_swapchain) /\ ~ Recreates) =>
             /\ pc' = "aborted"
             /\ ~ recreate_swapchain'
             /\ acquire_result' = "None"
             /\ flush_result' = "None"
             /\ UNCHANGED << swapchain, images, command_buffer, viewport,
                             window_resized, fences, previous_fence_i, frames,
                             pipeline_builds, command_buffer_builds,
                             swapchain_recreations, framebuffer_builds >> ]_vars
    /\ [][ (pc = "idle" /\ pc' = "aborted") =>
             (StartsIteration /\ (window_resized \/ recreate_swapchain)) ]_vars
    /\ [][ AbortedInStepOne => UNCHANGED vars ]_vars
    /\ [](AbortedInStepOne => (~ ENABLED Next /\ ~ recreate_swapchain))

\* The recreation for a pending resize failed after a frame had been queued:
\* the process has aborted with the first swapchain, at its first extent,
\* still the live one, the resize unserviced and the frame's fence in its slot.
RecreationFailureFatalWitness ==
    /\ AbortedInStepOne
    /\ iteration = 2
    /\ Len(frames) = 1
    /\ window_resized
    /\ inner_size # InitialSize
    /\ swapchain.id = 0
    /\ swapchain.create_info.image_extent = InitialSize
    /\ fences[frames[1].image] = 1
====
